---- MODULE Spec2Model ----
(***************************************************************************)
(* A model of the landmarker.io viewport (src/js/app/view/viewport):       *)
(* the scene-graph transforms, the up-vector reorientation (pointUp),      *)
(* the render pass (update) behind the atomic-operation gate, and the      *)
(* camera toggle.                                                          *)
(*                                                                         *)
(* Vectors are triples of integers.  Orientations are rotation matrices    *)
(* given by their three columns (the images of the local X, Y, Z axes);    *)
(* every rotation the viewport applies is a multiple of a quarter turn     *)
(* about a coordinate axis, so the matrices stay integral.                 *)
(***************************************************************************)
EXTENDS Integers, Sequences, FiniteSets, TLC

----------------------------------------------------------------------------
(* Bounds of the model *)

\* components of the vectors handed to a lone call of mainDirection:
\* -MaxCoord..MaxCoord
MaxCoord == 2
\* deepest nesting of atomic operations opened around the viewport's handlers
MaxDepth == 2

----------------------------------------------------------------------------
(* Vector arithmetic (THREE.Vector3) *)

Dot(a, b) == a[1] * b[1] + a[2] * b[2] + a[3] * b[3]

Cross(a, b) ==
    << a[2] * b[3] - a[3] * b[2],
       a[3] * b[1] - a[1] * b[3],
       a[1] * b[2] - a[2] * b[1] >>

addVectors(a, b) == << a[1] + b[1], a[2] + b[2], a[3] + b[3] >>

multiplyScalar(a, k) == << k * a[1], k * a[2], k * a[3] >>

LengthSq(a) == Dot(a, a)

\* squared Euclidean distance between two integer vectors
DistanceSq(a, b) ==
    (a[1] - b[1]) * (a[1] - b[1]) + (a[2] - b[2]) * (a[2] - b[2])
        + (a[3] - b[3]) * (a[3] - b[3])

CoordRange == (0 - MaxCoord)..MaxCoord

Vectors == CoordRange \X CoordRange \X CoordRange

\* The six canonical axes, in the order of the source: +X, -X, +Y, -Y, +Z, -Z.
\* (The source indexes them 0..5; here they are 1..6.)
COORDS ==
    << <<1, 0, 0>>, <<-1, 0, 0>>,
       <<0, 1, 0>>, <<0, -1, 0>>,
       <<0, 0, 1>>, <<0, 0, -1>> >>

Axes == { COORDS[i] : i \in 1..6 }

ORIGINAL_UP_VECTOR == COORDS[3]

\* A real vector num / sqrt(den2), kept exact.  Integer vectors have den2 = 1.
Vec(v) == [num |-> v, den2 |-> 1]

\* v.clone().normalize(): v / |v|; the zero vector stays the zero vector.
normalize(a) ==
    IF LengthSq(a.num) = 0 THEN a
    ELSE [num |-> a.num, den2 |-> LengthSq(a.num)]

\* a.distanceTo(c1) < a.distanceTo(c2) for two unit axes c1, c2.
\* |a - c|^2 = |a|^2 + 1 - 2 (a.num . c) / sqrt(a.den2), and |a|^2 + 1 and
\* sqrt(a.den2) > 0 are the same on both sides, so the comparison of the two
\* distances is the comparison of the two dot products, reversed.
distanceLess(a, c1, c2) == Dot(a.num, c1) > Dot(a.num, c2)

\* One round of the forEach of mainDirection: main = 0 stands for "no main yet"
\* (the source's undefined), otherwise main is the index of the axis whose
\* distance is held in dist.
mainDirectionStepLe(a, main, i) ==
    IF main = 0 \/ ~distanceLess(a, COORDS[main], COORDS[i]) THEN i ELSE main

mainDirectionStep(a, main, i) ==
    IF main = 0 \/ distanceLess(a, COORDS[i], COORDS[main]) THEN i ELSE main

RECURSIVE mainDirectionFrom(_, _, _)
mainDirectionFrom(a, main, i) ==
    IF i > 6 THEN main
    ELSE mainDirectionFrom(a, mainDirectionStep(a, main, i), i + 1)

\* mainDirection(v): the element of COORDS the loop ends with
mainDirection(a) == COORDS[mainDirectionFrom(a, 0, 1)]

----------------------------------------------------------------------------
(* Rotations (THREE.Object3D.rotateOnAxis, lookAt) *)

Identity == << COORDS[1], COORDS[3], COORDS[5] >>

\* the matrix m applied to the vector v
Apply(m, v) ==
    addVectors(addVectors(multiplyScalar(m[1], v[1]), multiplyScalar(m[2], v[2])),
               multiplyScalar(m[3], v[3]))

\* the vector v turned about the unit axis k by `quarters` quarter turns
\* (Rodrigues' formula at 0, 90, -90 and -180 degrees)
RotateVector(k, quarters, v) ==
    LET along == multiplyScalar(k, Dot(k, v))
    IN  CASE quarters = 0 -> v
          [] quarters = 1 -> addVectors(along, Cross(k, v))
          [] quarters = -1 -> addVectors(along, multiplyScalar(Cross(k, v), -1))
          [] quarters = -2 -> addVectors(multiplyScalar(along, 2), multiplyScalar(v, -1))

\* the rotation matrix of a turn about k
RotationMatrix(k, quarters) ==
    << RotateVector(k, quarters, COORDS[1]),
       RotateVector(k, quarters, COORDS[3]),
       RotateVector(k, quarters, COORDS[5]) >>

\* node.rotateOnAxis(axis, angle): the turn is about the node's local axis,
\* quaternion.multiply(q1), i.e. the orientation is multiplied on the right
rotateOnAxis(m, k, quarters) ==
    LET r == RotationMatrix(k, quarters)
    IN  << Apply(m, r[1]), Apply(m, r[2]), Apply(m, r[3]) >>

\* node.up.copy(up); node.lookAt(front): z = front, x = up x z, y = z x x
lookAt(up, front) ==
    LET x == Cross(up, front)
    IN  << x, Cross(front, x), front >>

----------------------------------------------------------------------------
(* The state *)

\* vp:     the Viewport object (its fields, by the names of the source)
\* ATOMIC_OPERATION: the depth counter of the atomic-operation tracker
\* scopes: the atomic operations now open, innermost first (who opened each)
\* log:    what the handler that ran last did: its name, the vector pointUp
\*         was called with, every call of Viewport.update with the renderer
\*         calls it made, every rotateOnAxis, every clearRect, whether the
\*         handler threw, every call of getIntersects, what the handler
\*         returned, the payload changeMesh was given, the landmark set
\*         changeLandmarks was given, the views it disposed of and the order
\*         of its dispose and constructor calls, the points a draw
\*         operation was called with, and the mesh and octree that
\*         removeMeshIfPresent dropped
\* mainCall: one call of the function mainDirection: its argument and, once
\*         it has returned, its result
\* drawn:  the points folded into ctxBox since the canvas was last cleared
\*         (a history of the calls of updateCanvasBoundingBox)
\* meshes: the Mesh models (their attributes and the material their t_mesh
\*         holds), the materials themselves, and the Mesh method called last
\* meshSource: the MeshSource (its pending table, its asset and mesh) and
\*         every fetch it has started
VARIABLES vp, ATOMIC_OPERATION, scopes, log, mainCall, drawn, meshes, meshSource

vars == << vp, ATOMIC_OPERATION, scopes, log, mainCall, drawn, meshes, meshSource >>

\* what model.mesh() answers when no asset is loaded: the mesh is null (the
\* other fields are then never read)
NoPayload ==
    [mesh |-> "null", isBufferGeometry |-> FALSE, radius |-> 1,
     center |-> <<0, 0, 0>>, up |-> <<0, 1, 0>>, front |-> <<0, 0, 1>>]

\* what model.get('landmarks') answers when there is no landmark set: null
NoLandmarks == [kind |-> "null", id |-> "", n |-> 0, connectivity |-> << >>]

\* The running handler sees the state components and its own log.
World(op) ==
    [ vp |-> vp, depth |-> ATOMIC_OPERATION, scopes |-> scopes, drawn |-> drawn,
      log |-> [ op |-> op, target |-> <<0, 0, 0>>, updates |-> << >>,
                rotations |-> << >>, clears |-> << >>, threw |-> FALSE,
                pick |-> << >>, result |-> "none", payload |-> NoPayload,
                landmarks |-> NoLandmarks, touched |-> {},
                disposed |-> [landmarkViews |-> << >>, connectivityViews |-> << >>],
                removed |-> [mesh |-> "none", octree |-> "none"],
                viewCalls |-> << >> ] ]

\* the handler's result becomes the next state
Commit(w) ==
    \E r \in {w} :
        /\ vp' = r.vp
        /\ ATOMIC_OPERATION' = r.depth
        /\ scopes' = r.scopes
        /\ log' = r.log
        /\ drawn' = r.drawn

\* an exception leaves the handler: what it did so far stays done
Throw(w) == [w EXCEPT !.log.threw = TRUE]

----------------------------------------------------------------------------
(* The atomic-operation tracker (model/atomic) *)

atomicOperationUnderway(w) == w.depth > 0

atomicOperationFinished(w) == w.depth = 0

----------------------------------------------------------------------------
(* Viewport.update: the render pass *)

Call(op, a, b) == [op |-> op, a |-> a, b |-> b]

\* lines 411-423 and, with the PIP camera, 432-439
renderPassHelpersAlways(camera, showConnectivity) ==
    << Call("clear", "", ""), Call("render", "scene", camera),
       Call("clearDepth", "", ""), Call("render", "sceneHelpers", camera) >>

renderPass(camera, showConnectivity) ==
    << Call("clear", "", ""), Call("render", "scene", camera) >>
    \o (IF showConnectivity
        THEN << Call("clearDepth", "", ""), Call("render", "sceneHelpers", camera) >>
        ELSE << >>)

setRegion(region) ==
    << Call("setViewport", region, ""), Call("setScissor", region, ""),
       Call("enableScissorTest", "true", "") >>

framePipAlways(v) ==
    setRegion("full") \o renderPass(v.s_camera, v.showConnectivity)
    \o << Call("setClearColor", "CLEAR_COLOUR_PIP", "") >>
    \o setRegion("pipBounds")
    \o renderPass("s_oCamZoom", v.showConnectivity)
    \o << Call("setClearColor", "CLEAR_COLOUR", "") >>

\* the renderer calls of an update that passes both early returns
frame(v) ==
    setRegion("full") \o renderPass(v.s_camera, v.showConnectivity)
    \o (IF v.s_camera = "s_oCam"
        THEN << Call("setClearColor", "CLEAR_COLOUR_PIP", "") >>
             \o setRegion("pipBounds")
             \o renderPass("s_oCamZoom", v.showConnectivity)
             \o << Call("setClearColor", "CLEAR_COLOUR", "") >>
        ELSE << >>)

logUpdate(w, calls) ==
    [w EXCEPT !.log.updates =
        Append(@, [depth |-> w.depth, renderer |-> w.vp.renderer,
                   showConnectivity |-> w.vp.showConnectivity, calls |-> calls])]

updateNoRendererCheck(w) ==
    IF atomicOperationUnderway(w) THEN logUpdate(w, << >>)
    ELSE logUpdate(w, frame(w.vp))

updateNoGate(w) ==
    IF ~w.vp.renderer THEN logUpdate(w, << >>)
    ELSE logUpdate(w, frame(w.vp))

update(w) ==
    IF ~w.vp.renderer THEN logUpdate(w, << >>)
    ELSE IF atomicOperationUnderway(w) THEN logUpdate(w, << >>)
    ELSE logUpdate(w, frame(w.vp))

batchHandlerInverted(w) ==
    IF ~atomicOperationFinished(w) THEN update(w) ELSE w

batchHandler(w) ==
    IF atomicOperationFinished(w) THEN update(w) ELSE w

\* Backbone's "change:ATOMIC_OPERATION": the viewport hears it once it listens
\* (initialize, line 266)
triggerAtomicChange(w) ==
    IF w.vp.listeningAtomic THEN batchHandler(w) ELSE w

startAtomicOperation(w, who) ==
    triggerAtomicChange([w EXCEPT !.depth = @ + 1, !.scopes = << who >> \o @])

endAtomicOperation(w) ==
    triggerAtomicChange([w EXCEPT !.depth = @ - 1, !.scopes = Tail(@)])

atomicExitNoFinally(w) ==
    IF w.log.threw THEN w ELSE endAtomicOperation(w)

\* leaving an atomic operation: the counter is decremented on every exit path
atomicExit(w) == endAtomicOperation(w)

\* A handler wrapped by atomic.atomicOperation is, below, atomicExit applied to
\* its body applied to startAtomicOperation.

----------------------------------------------------------------------------
(* 2D canvas: the dirty rectangle *)

\* the "empty" ctxBox: minX = minY = EMPTY_MIN, maxX = maxY = 0
EMPTY_MIN == 999999

CLEAR_PADDING == 3

EmptyBox == [minX |-> EMPTY_MIN, minY |-> EMPTY_MIN, maxX |-> 0, maxY |-> 0]

Max(a, b) == IF a > b THEN a ELSE b

Min(a, b) == IF a < b THEN a ELSE b

\* clearCanvas: clearRect over the padded ctxBox, then ctxBox is reset
\* (canvas coordinates are integers here, so floor and ceil change nothing)
clearCanvas(w) ==
    LET b == w.vp.ctxBox
        minX == Max(b.minX - CLEAR_PADDING, 0)
        minY == Max(b.minY - CLEAR_PADDING, 0)
        maxX == b.maxX + CLEAR_PADDING
        maxY == b.maxY + CLEAR_PADDING
    IN  [w EXCEPT !.log.clears =
                      Append(@, [x |-> minX, y |-> minY,
                                 width |-> maxX - minX, height |-> maxY - minY,
                                 box |-> b, drawn |-> w.drawn]),
                  !.vp.ctxBox = EmptyBox,
                  !.drawn = {}]

\* a screen point is << x, y >>
updateCanvasBoundingBoxLastWins(w, point) ==
    [w EXCEPT !.vp.ctxBox = [minX |-> Min(@.minX, point[1]),
                             minY |-> Min(@.minY, point[2]),
                             maxX |-> point[1],
                             maxY |-> point[2]],
              !.drawn = @ \cup {point}]

updateCanvasBoundingBox(w, point) ==
    [w EXCEPT !.vp.ctxBox = [minX |-> Min(@.minX, point[1]),
                             minY |-> Min(@.minY, point[2]),
                             maxX |-> Max(@.maxX, point[1]),
                             maxY |-> Max(@.maxY, point[2])],
              !.drawn = @ \cup {point}]

\* strokeRect paints the 2D surface; the viewport's state changes by the two
\* corners folded into ctxBox
drawSelectionBox(w, mouseDown, mousePosition) ==
    updateCanvasBoundingBox(updateCanvasBoundingBox(w, mouseDown), mousePosition)

\* lines 629-633: the forEach over secondaryLms, each landmark at the screen
\* point localToScreen gives it
RECURSIVE drawSecondaryLines(_, _)
drawSecondaryLines(w, lmPoints) ==
    IF lmPoints = << >> THEN w
    ELSE drawSecondaryLines(updateCanvasBoundingBox(w, Head(lmPoints)), Tail(lmPoints))

\* targetPoint and secondaryPoints are localToScreen(lm.point()) of the target
\* and of the secondary landmarks
drawTargetingLinesCursorOnly(w, point, targetPoint, secondaryPoints) ==
    updateCanvasBoundingBox(w, point)

drawTargetingLines(w, point, targetPoint, secondaryPoints) ==
    updateCanvasBoundingBox(
        drawSecondaryLines(updateCanvasBoundingBox(w, point), secondaryPoints),
        targetPoint)

----------------------------------------------------------------------------
(* Cameras *)

toggleCameraKeepsListening(w) ==
    LET currentlyPerspective == (w.vp.s_camera = "s_pCam")
        w1 == IF currentlyPerspective
              THEN [w EXCEPT !.vp.pipListeners = @ + 1,
                             !.vp.s_camera = "s_oCam",
                             !.vp.pipDisplay = "null"]
              ELSE [w EXCEPT !.vp.s_camera = "s_pCam",
                             !.vp.pipDisplay = "none"]
    IN  update(clearCanvas(w1))

toggleCameraToZoom(w) ==
    LET currentlyPerspective == (w.vp.s_camera = "s_pCam")
        w1 == IF currentlyPerspective
              THEN [w EXCEPT !.vp.pipListeners = @ + 1,
                             !.vp.s_camera = "s_oCamZoom",
                             !.vp.pipDisplay = "null"]
              ELSE [w EXCEPT !.vp.pipListeners = 0,
                             !.vp.s_camera = "s_pCam",
                             !.vp.pipDisplay = "none"]
    IN  update(clearCanvas(w1))

toggleCamera(w) ==
    LET currentlyPerspective == (w.vp.s_camera = "s_pCam")
        w1 == IF currentlyPerspective
              THEN [w EXCEPT !.vp.pipListeners = @ + 1,
                             !.vp.s_camera = "s_oCam",
                             !.vp.pipDisplay = "null"]
              ELSE [w EXCEPT !.vp.pipListeners = 0,
                             !.vp.s_camera = "s_pCam",
                             !.vp.pipDisplay = "none"]
    IN  update(clearCanvas(w1))

\* the camera controller is repositioned (not part of the viewport's state),
\* then the scene is rendered
resetCamera(w) == update(w)

\* the camera controller, the renderer and the canvas are resized (none of
\* them part of this state), then the scene is rendered
resize(w) == update(w)

\* the camera controller's "changePip" event: every subscription made by
\* listenTo (line 449) and not yet dropped by stopListening (line 455) calls
\* this.update
RECURSIVE changePipFrom(_, _)
changePipFrom(w, listeners) ==
    IF listeners = 0 THEN w ELSE changePipFrom(update(w), listeners - 1)

changePip(w) == changePipFrom(w, w.vp.pipListeners)

----------------------------------------------------------------------------
(* pointUp *)

\* lines 324-330: the first of X, Y, Z whose dot product with s is 0; the
\* loop variable keeps the last one (Z) when none is
pointUpAxis(s) ==
    IF Dot(s, COORDS[1]) = 0 THEN COORDS[1]
    ELSE IF Dot(s, COORDS[3]) = 0 THEN COORDS[3]
    ELSE COORDS[5]

pointUpQuartersNegated(s, axis) ==
    IF LengthSq(s) = 0 THEN -2
    ELSE LET t == addVectors(s, axis)
         IN  0 - t[1] * t[2] * t[3]

\* lines 332-338: the angle, in quarter turns (angle = quarters * PI / 2)
pointUpQuarters(s, axis) ==
    IF LengthSq(s) = 0 THEN -2
    ELSE LET t == addVectors(s, axis)
         IN  t[1] * t[2] * t[3]

logRotation(w, node, axis, quarters) ==
    [w EXCEPT !.log.rotations =
        Append(@, [node |-> node, axis |-> axis, quarters |-> quarters])]

\* lines 340-342
pointUpApplyPrimaryOnly(w, newUpVector, axis, quarters) ==
    logRotation(
        [w EXCEPT !.vp.upVector = newUpVector,
                  !.vp.s_scaleRotate.rot = rotateOnAxis(@, axis, quarters)],
        "s_scaleRotate", axis, quarters)

pointUpApplyForgetsUp(w, newUpVector, axis, quarters) ==
    logRotation(
        logRotation(
            [w EXCEPT !.vp.s_scaleRotate.rot = rotateOnAxis(@, axis, quarters),
                      !.vp.s_h_scaleRotate.rot = rotateOnAxis(@, axis, quarters)],
            "s_scaleRotate", axis, quarters),
        "s_h_scaleRotate", axis, quarters)

pointUpApply(w, newUpVector, axis, quarters) ==
    logRotation(
        logRotation(
            [w EXCEPT !.vp.upVector = newUpVector,
                      !.vp.s_scaleRotate.rot = rotateOnAxis(@, axis, quarters),
                      !.vp.s_h_scaleRotate.rot = rotateOnAxis(@, axis, quarters)],
            "s_scaleRotate", axis, quarters),
        "s_h_scaleRotate", axis, quarters)

\* the function pointUp wraps; target.null stands for a call with no vector
\* (v.clone() throws before anything is changed)
pointUpBody(w, target) ==
    IF target.null THEN Throw(w)
    ELSE
        LET newUpVector == mainDirection(normalize(Vec(target.v)))
        IN  IF newUpVector = w.vp.upVector THEN w
            ELSE LET s == addVectors(newUpVector, w.vp.upVector)
                     axis == pointUpAxis(s)
                 IN  pointUpApply(w, newUpVector, axis, pointUpQuarters(s, axis))

pointUp(w, target) ==
    atomicExit(pointUpBody(startAtomicOperation(w, "pointUp"), target))

----------------------------------------------------------------------------
(* changeMesh *)

removeMeshIfPresentKeepsChild(w) ==
    IF w.vp.mesh # "null"
    THEN [w EXCEPT !.vp.mesh = "null",
                   !.vp.octree = "null"]
    ELSE w

removeMeshIfPresentKeepsOctree(w) ==
    IF w.vp.mesh # "null"
    THEN [w EXCEPT !.vp.s_mesh = @ \ {w.vp.mesh},
                   !.vp.mesh = "null",
                   !.log.removed = [mesh |-> w.vp.mesh, octree |-> w.vp.octree]]
    ELSE w

\* log.removed: the mesh taken out of s_mesh and the octree dropped with it
removeMeshIfPresent(w) ==
    IF w.vp.mesh # "null"
    THEN [w EXCEPT !.vp.s_mesh = @ \ {w.vp.mesh},
                   !.vp.mesh = "null",
                   !.vp.octree = "null",
                   !.log.removed = [mesh |-> w.vp.mesh, octree |-> w.vp.octree]]
    ELSE w

changeMeshTransformNoNegate(w, payload) ==
    [w EXCEPT !.vp.meshScale = payload.radius,
              !.vp.s_scaleRotate =
                  [scale |-> [num |-> 1, den |-> payload.radius],
                   up |-> payload.up,
                   rot |-> lookAt(payload.up, payload.front)],
              !.vp.s_h_scaleRotate =
                  [scale |-> [num |-> 1, den |-> payload.radius],
                   up |-> payload.up,
                   rot |-> lookAt(payload.up, payload.front)],
              !.vp.s_translate = payload.center,
              !.vp.s_h_translate = payload.center]

\* lines 369-381: the unit-sphere normalisation and the orientation
changeMeshTransform(w, payload) ==
    [w EXCEPT !.vp.meshScale = payload.radius,
              !.vp.s_scaleRotate =
                  [scale |-> [num |-> 1, den |-> payload.radius],
                   up |-> payload.up,
                   rot |-> lookAt(payload.up, payload.front)],
              !.vp.s_h_scaleRotate =
                  [scale |-> [num |-> 1, den |-> payload.radius],
                   up |-> payload.up,
                   rot |-> lookAt(payload.up, payload.front)],
              !.vp.s_translate = multiplyScalar(payload.center, -1),
              !.vp.s_h_translate = multiplyScalar(payload.center, -1)]

\* payload is what this.model.mesh() returns; payload.mesh = "null" is null
changeMesh(w, payload) ==
    LET w1 == removeMeshIfPresent(w)
    IN  IF payload.mesh = "null" THEN w1
        ELSE
            LET w2 == [w1 EXCEPT !.vp.mesh = payload.mesh,
                                 !.vp.octree = IF payload.isBufferGeometry
                                               THEN payload.mesh ELSE @,
                                 !.vp.s_mesh = @ \cup {payload.mesh}]
            IN  update(changeMeshTransform(w2, payload))

----------------------------------------------------------------------------
(* Connectivity, editing, landmarks *)

updateConnectivityDisplayBody(w, isConnectivityOn) ==
    [w EXCEPT !.vp.showConnectivity = isConnectivityOn]

updateConnectivityDisplay(w, isConnectivityOn) ==
    atomicExit(updateConnectivityDisplayBody(
        startAtomicOperation(w, "updateConnectivityDisplay"), isConnectivityOn))

\* the mouse handler's own state (group selection, mouse-move binding) is not
\* part of the viewport's state
updateEditingDisplayBody(w, isEditingOn) ==
    clearCanvas([w EXCEPT !.vp.editingOn = isEditingOn])

updateEditingDisplay(w, isEditingOn) ==
    atomicExit(updateEditingDisplayBody(
        startAtomicOperation(w, "updateEditingDisplay"), isEditingOn))

LandmarkViews(lms) ==
    [i \in 1..lms.n |-> [model |-> << lms.id, i - 1 >>]]

ConnectivityViews(lms) ==
    [k \in 1..Len(lms.connectivity) |->
        [model |-> << << lms.id, lms.connectivity[k][1] >>,
                      << lms.id, lms.connectivity[k][2] >> >>]]

\* n calls of one kind ("dispose" or "new")
ViewCalls(kind, n) == [i \in 1..n |-> kind]

\* lines 561-566: every landmark view, then every connectivity view, is
\* disposed of
disposeViews(w) ==
    [w EXCEPT !.log.disposed = [landmarkViews |-> w.vp.landmarkViews,
                                connectivityViews |-> w.vp.connectivityViews],
              !.log.viewCalls =
                  @ \o ViewCalls("dispose", Len(w.vp.landmarkViews)
                                            + Len(w.vp.connectivityViews))]

\* lines 579-593: one view per landmark, one per connectivity edge, pushed
\* onto the lists
buildViews(w, landmarks) ==
    [w EXCEPT !.vp.landmarkViews = @ \o LandmarkViews(landmarks),
              !.vp.connectivityViews = @ \o ConnectivityViews(landmarks),
              !.log.viewCalls =
                  @ \o ViewCalls("new", landmarks.n + Len(landmarks.connectivity))]

changeLandmarksBodyKeepsOld(w, landmarks) ==
    LET w1 == disposeViews(w)
    IN  CASE landmarks.kind = "null" -> w1
          [] landmarks.kind = "undefined" -> Throw(w1)
          [] OTHER -> buildViews(w1, landmarks)

\* landmarks is what this.model.get('landmarks') returns: kind is "null",
\* "undefined" (the attribute was never set: landmarks.landmarks throws) or
\* "set"
changeLandmarksBody(w, landmarks) ==
    LET w1 == [disposeViews(w) EXCEPT !.vp.landmarkViews = << >>,
                                      !.vp.connectivityViews = << >>]
    IN  CASE landmarks.kind = "null" -> w1
          [] landmarks.kind = "undefined" -> Throw(w1)
          [] OTHER -> buildViews(w1, landmarks)

changeLandmarks(w, landmarks) ==
    atomicExit(changeLandmarksBody(startAtomicOperation(w, "changeLandmarks"), landmarks))

----------------------------------------------------------------------------
(* Picking *)

\* The target of a pick: null, a list of n objects, one object, or the
\* active mesh (isMesh: object === this.mesh).
NullObject == [kind |-> "null", n |-> 0, isMesh |-> FALSE]

ObjectList(n) == [kind |-> "array", n |-> n, isMesh |-> FALSE]

OneObject == [kind |-> "object", n |-> 1, isMesh |-> FALSE]

\* this.mesh as a pick target
MeshObject(v) ==
    IF v.mesh = "null" THEN NullObject
    ELSE [kind |-> "object", n |-> 1, isMesh |-> TRUE]

getIntersectsIsEmptyNullOnly(object) == object.kind = "null"

\* line 668
getIntersectsIsEmpty(object) ==
    object.kind = "null" \/ (object.kind = "array" /\ object.n = 0)

\* what getIntersects returns; hits is what the ray intersection (the octree,
\* intersectObjects or intersectObject) finds, nearest first
getIntersectsResult(object, hits) ==
    IF getIntersectsIsEmpty(object) THEN << >> ELSE hits

\* lines 688-695: which intersection routine is asked
getIntersectsRoutine(w, object) ==
    IF object.isMesh /\ w.vp.octree \notin {"null", "undefined"}
    THEN "octree.intersetMesh"
    ELSE IF object.kind = "array" THEN "ray.intersectObjects"
    ELSE "ray.intersectObject"

\* the effect of getIntersects: past the guard the ray is set from the
\* active camera (lines 674-686)
getIntersects(w, x, y, object, hits) ==
    IF getIntersectsIsEmpty(object)
    THEN [w EXCEPT !.log.pick =
              Append(@, [object |-> object, routine |-> "none",
                         result |-> getIntersectsResult(object, hits)])]
    ELSE [w EXCEPT !.vp.ray = [kind |-> IF w.vp.s_camera = "s_pCam"
                                         THEN "perspective" ELSE "orthographic",
                               x |-> x, y |-> y],
                   !.log.pick =
              Append(@, [object |-> object, routine |-> getIntersectsRoutine(w, object),
                         result |-> getIntersectsResult(object, hits)])]

\* a hit is its distance along the ray
\* line 756: iMesh.length === 0 || iMesh[0].distance > iLm[0].distance;
\* iLm[0] is undefined when the symbol is not hit, and reading its distance
\* throws a TypeError
lmViewVisibleDecision(iMesh, iLm) ==
    IF Len(iMesh) = 0 THEN "true"
    ELSE IF Len(iLm) = 0 THEN "TypeError"
    ELSE IF iMesh[1] > iLm[1] THEN "true" ELSE "false"

\* lmView: whether it has a symbol and where lmToScreen puts it; meshHits and
\* lmHits: what the ray finds on the mesh and on the symbol
lmViewVisible(w, lmView, meshHits, lmHits) ==
    IF ~lmView.symbol THEN [w EXCEPT !.log.result = "false"]
    ELSE
        LET x == lmView.screen[1]
            y == lmView.screen[2]
            w1 == getIntersects(w, x, y, MeshObject(w.vp), meshHits)
            iMesh == getIntersectsResult(MeshObject(w.vp), meshHits)
            w2 == getIntersects(w1, x, y, OneObject, lmHits)
            iLm == getIntersectsResult(OneObject, lmHits)
            decision == lmViewVisibleDecision(iMesh, iLm)
        IN  IF decision = "TypeError" THEN Throw(w2)
            ELSE [w2 EXCEPT !.log.result = decision]

----------------------------------------------------------------------------
(* Mesh: the material a mesh is shown with *)

\* the ids of the meshes of the asset list
MeshIds == { "A", "B" }

\* the values alpha takes, in hundredths (the default, 1, is 100)
Alphas == { 50, 100 }

\* a new THREE.MeshPhongMaterial: not wireframe, opaque
NewMaterial == [wireframe |-> FALSE, opacity |-> 100]

\* what Mesh.parse makes of a response (lines 898-957): with texture
\* coordinates a material of the mesh's own, kept as the attribute texture,
\* and textureOn: true; without, the module's one basicMaterial
ParsedMesh(hasTcoords) ==
    [ texture |-> hasTcoords, textureOn |-> hasTcoords, wireframeOn |-> FALSE,
      alpha |-> 100,
      material |-> IF hasTcoords THEN "texture" ELSE "basicMaterial",
      textureMaterial |-> NewMaterial ]

\* the module after its meshes were parsed; tcoords[id] says whether the
\* response for id had texture coordinates
ParsedMeshes(tcoords) ==
    [ basicMaterial |-> NewMaterial,
      mesh |-> [id \in MeshIds |-> ParsedMesh(tcoords[id])],
      last |-> [op |-> "none", id |-> "none"] ]

\* this.t_mesh().material
t_meshMaterial(ms, id) ==
    IF ms.mesh[id].material = "texture" THEN ms.mesh[id].textureMaterial
    ELSE ms.basicMaterial

\* this.t_mesh().material.wireframe = b
setWireframe(ms, id, b) ==
    IF ms.mesh[id].material = "texture"
    THEN [ms EXCEPT !.mesh[id].textureMaterial.wireframe = b]
    ELSE [ms EXCEPT !.basicMaterial.wireframe = b]

hasTexture(ms, id) == ms.mesh[id].texture

isTextureOn(ms, id) == hasTexture(ms, id) /\ ms.mesh[id].textureOn

isWireframeOn(ms, id) == t_meshMaterial(ms, id).wireframe

changeAlpha(ms, id) ==
    IF ms.mesh[id].material = "texture"
    THEN [ms EXCEPT !.mesh[id].textureMaterial.opacity = ms.mesh[id].alpha]
    ELSE [ms EXCEPT !.basicMaterial.opacity = ms.mesh[id].alpha]

wireframeOn(ms, id) ==
    IF isWireframeOn(ms, id) THEN ms
    ELSE changeAlpha([setWireframe(ms, id, TRUE) EXCEPT !.mesh[id].wireframeOn = TRUE], id)

wireframeOff(ms, id) ==
    IF ~isWireframeOn(ms, id) THEN ms
    ELSE changeAlpha([setWireframe(ms, id, FALSE) EXCEPT !.mesh[id].wireframeOn = FALSE], id)

wireframeToggle(ms, id) ==
    IF isWireframeOn(ms, id) THEN wireframeOff(ms, id) ELSE wireframeOn(ms, id)

\* lines 819-826 and 834-841: the new material takes over the wireframe
\* state of the old one and the mesh's alpha
switchMaterialKeepsItsOwn(ms, id, material) ==
    changeAlpha([ms EXCEPT !.mesh[id].material = material], id)

switchMaterial(ms, id, material) ==
    LET wf == isWireframeOn(ms, id)
        ms1 == [ms EXCEPT !.mesh[id].material = material]
        ms2 == IF wf THEN wireframeOn(ms1, id) ELSE wireframeOff(ms1, id)
    IN  changeAlpha(ms2, id)

textureOn(ms, id) ==
    IF isTextureOn(ms, id) \/ ~hasTexture(ms, id) THEN ms
    ELSE [switchMaterial(ms, id, "texture") EXCEPT !.mesh[id].textureOn = TRUE]

textureOff(ms, id) ==
    IF ~isTextureOn(ms, id) THEN ms
    ELSE [switchMaterial(ms, id, "basicMaterial") EXCEPT !.mesh[id].textureOn = FALSE]

textureToggle(ms, id) ==
    IF isTextureOn(ms, id) THEN textureOff(ms, id) ELSE textureOn(ms, id)

\* mesh.set('alpha', alpha): Backbone fires change:alpha, which the mesh
\* listens to with changeAlpha (line 780), when the value changes
setAlpha(ms, id, alpha) ==
    IF ms.mesh[id].alpha = alpha THEN ms
    ELSE changeAlpha([ms EXCEPT !.mesh[id].alpha = alpha], id)

----------------------------------------------------------------------------
(* MeshSource: fetching the mesh that was asked for *)

\* the most fetches one run starts
MaxFetches == 4

\* no fetch started yet: pending is empty (pending[id] = 0: no entry for id;
\* otherwise the index, in xhrs, of the fetch stored under id), no asset
NoSource ==
    [ pending |-> [id \in MeshIds |-> 0], xhrs |-> << >>,
      asset |-> "undefined", mesh |-> "undefined" ]

\* xhr.abort(): a fetch still loading is aborted, a finished one stays as it is
abort(xhr) ==
    IF xhr.status = "loading" THEN [xhr EXCEPT !.status = "aborted"] ELSE xhr

\* lines 990-992: every value of pending is aborted
abortPending(src) ==
    [src EXCEPT !.xhrs =
        [i \in 1..Len(src.xhrs) |->
            IF \E id \in MeshIds : src.pending[id] = i
            THEN abort(src.xhrs[i]) ELSE src.xhrs[i]]]

\* lines 994-1002: the fetch is started and stored under the mesh's id
startFetch(src, id) ==
    [src EXCEPT !.xhrs = Append(@, [id |-> id, status |-> "loading"]),
                !.pending[id] = Len(src.xhrs) + 1]

setAssetNoAbort(src, id) == startFetch(src, id)

setAsset(src, id) == startFetch(abortPending(src), id)

\* the success callback of fetch i (lines 995-1001)
fetchSuccess(src, i) ==
    [src EXCEPT !.xhrs[i].status = "done",
                !.asset = src.xhrs[i].id,
                !.mesh = src.xhrs[i].id,
                !.pending[src.xhrs[i].id] = 0]

\* fetch i fails: setAsset passes no error callback
fetchError(src, i) == [src EXCEPT !.xhrs[i].status = "failed"]

----------------------------------------------------------------------------
(* Inputs *)

Target(v) == [null |-> FALSE, v |-> v]

NullTarget == [null |-> TRUE, v |-> <<0, 0, 0>>]

\* every direction of the cube (the axes, the face and space diagonals, where
\* several axes are equally near) and the zero vector, and a call without a vector
Targets ==
    { Target(v) : v \in {-1, 0, 1} \X {-1, 0, 1} \X {-1, 0, 1} } \cup { NullTarget }

NullPayload == NoPayload

Mesh1 ==
    [mesh |-> "mesh1", isBufferGeometry |-> TRUE, radius |-> 1,
     center |-> <<0, 0, 0>>, up |-> COORDS[3], front |-> COORDS[5]]

Mesh2 ==
    [mesh |-> "mesh2", isBufferGeometry |-> TRUE, radius |-> 2,
     center |-> <<1, 0, 0>>, up |-> COORDS[5], front |-> COORDS[1]]

Image1 ==
    [mesh |-> "image1", isBufferGeometry |-> FALSE, radius |-> 2,
     center |-> <<1, 1, 0>>, up |-> COORDS[4], front |-> COORDS[5]]

\* what model.mesh() may return
MeshPayloads == { NullPayload, Mesh1, Mesh2, Image1 }

UnsetLandmarks == [kind |-> "undefined", id |-> "", n |-> 0, connectivity |-> << >>]

LandmarksA == [kind |-> "set", id |-> "A", n |-> 2, connectivity |-> << <<0, 1>> >>]

LandmarksB ==
    [kind |-> "set", id |-> "B", n |-> 3, connectivity |-> << <<0, 1>>, <<1, 2>> >>]

\* what model.get('landmarks') may return
LandmarkInputs == { NoLandmarks, UnsetLandmarks, LandmarksA, LandmarksB }

\* screen points the mouse and the projected landmarks may be at: on the
\* canvas and off it (a landmark projected off-screen has negative coordinates)
ScreenPoints == { <<-4, -2>>, <<-1, 9>>, <<2, 7>>, <<7, 2>>, <<5, 5>> }

\* the screen points of the secondary landmarks, in the order of the list
SecondaryPoints ==
    { << >> } \cup { << p >> : p \in ScreenPoints }
              \cup { << p, q >> : p \in ScreenPoints, q \in ScreenPoints }

\* what a ray intersection may return: the distances of the hits, nearest first
Hits == { << >>, << 1 >>, << 2 >>, << 3 >>, << 1, 3 >>, << 2, 3 >> }

\* the pick targets a caller may pass besides the active mesh
PickObjects == { NullObject, ObjectList(0), ObjectList(1), ObjectList(2), OneObject }

\* landmark views: with a symbol at a screen point, or without a symbol
LmViews ==
    { [symbol |-> TRUE, screen |-> p] : p \in {<<2, 7>>, <<-4, -2>>} }
    \cup { [symbol |-> FALSE, screen |-> <<0, 0>>] }

----------------------------------------------------------------------------
(* The viewport's life: construction, then handlers called one at a time *)

NoCall ==
    [v |-> <<0, 0, 0>>, returned |-> FALSE, main |-> <<0, 0, 0>>,
     mainOfNormalized |-> <<0, 0, 0>>]

NoLog ==
    [ op |-> "none", target |-> <<0, 0, 0>>, updates |-> << >>,
      rotations |-> << >>, clears |-> << >>, threw |-> FALSE,
      pick |-> << >>, result |-> "none", payload |-> NoPayload,
                landmarks |-> NoLandmarks, touched |-> {},
                disposed |-> [landmarkViews |-> << >>, connectivityViews |-> << >>],
                removed |-> [mesh |-> "none", octree |-> "none"],
                viewCalls |-> << >> ]

\* this.ray before initialize creates the Raycaster
NoRay == [kind |-> "undefined", x |-> 0, y |-> 0]

\* Before initialize has run.  meshMode is what model.meshMode() answers.
Unbuilt(meshMode) ==
             [ pc |-> "new", meshMode |-> meshMode,
               renderer |-> FALSE, listeningAtomic |-> FALSE,
               ctxBox |-> EmptyBox,
               pipDisplay |-> "none", pipListeners |-> 0,
               s_oCam |-> "undefined", s_oCamZoom |-> "undefined",
               s_pCam |-> "undefined",
               s_camera |-> "undefined",
               ray |-> NoRay,
               upVector |-> ORIGINAL_UP_VECTOR,
               s_scaleRotate |-> [scale |-> [num |-> 1, den |-> 1],
                                  up |-> COORDS[3], rot |-> Identity],
               s_h_scaleRotate |-> [scale |-> [num |-> 1, den |-> 1],
                                    up |-> COORDS[3], rot |-> Identity],
               s_translate |-> <<0, 0, 0>>,
               s_h_translate |-> <<0, 0, 0>>,
               s_mesh |-> {},
               meshScale |-> 1,
               mesh |-> "undefined", octree |-> "undefined",
               showConnectivity |-> FALSE, editingOn |-> FALSE,
               landmarkViews |-> << >>, connectivityViews |-> << >> ]

InitWith(meshModes) ==
    /\ \E meshMode \in meshModes : vp = Unbuilt(meshMode)
    /\ ATOMIC_OPERATION = 0
    /\ scopes = << >>
    /\ log = NoLog
    /\ mainCall = NoCall
    /\ drawn = {}
    /\ meshes = ParsedMeshes([id \in MeshIds |-> FALSE])
    /\ meshSource = NoSource

\* initialize, lines 55-183: the DOM, the scene graph, the cameras; no
\* renderer exists yet when toggleCamera and resetCamera call update
InitializeScene ==
    /\ vp.pc = "new"
    /\ LET w0 == [World("initialize") EXCEPT !.vp.pc = "scene",
                                             !.vp.pipDisplay = "none",
                                             !.vp.ctxBox = EmptyBox,
                                             !.vp.s_oCam = "OrthographicCamera1",
                                             !.vp.s_oCamZoom = "OrthographicCamera2",
                                             !.vp.s_pCam = "PerspectiveCamera1",
                                             !.vp.s_camera = "s_pCam"]
           w1 == IF ~vp.meshMode THEN toggleCamera(w0) ELSE w0
       IN  Commit(resetCamera(w1))
    /\ UNCHANGED << mainCall, meshes, meshSource >>

\* initialize, lines 185-296: the renderer, the helper scene, the first
\* changeMesh, the handlers, the first resize
InitializeRendererWith(payloads, flags) ==
    /\ vp.pc = "scene"
    /\ \E payload \in payloads, isConnectivityOn \in flags, isEditingOn \in flags :
        LET w0 == [World("initialize") EXCEPT !.vp.pc = "ready",
                                              !.vp.renderer = TRUE,
                                              !.vp.ray = [NoRay EXCEPT !.kind = "new"]]
            w1 == changeMesh(w0, payload)
            w2 == [w1 EXCEPT !.vp.landmarkViews = << >>,
                             !.vp.connectivityViews = << >>,
                             !.vp.showConnectivity = TRUE]
            w3 == updateEditingDisplay(updateConnectivityDisplay(w2, isConnectivityOn),
                                       isEditingOn)
            w4 == [w3 EXCEPT !.vp.listeningAtomic = TRUE]
        IN  Commit(resize(w4))
    /\ UNCHANGED << mainCall, meshes, meshSource >>

Ready == vp.pc = "ready"

\* the camera controller's "change" event: this.update
Update ==
    /\ Ready
    /\ Commit(update(World("update")))
    /\ UNCHANGED << mainCall, meshes, meshSource >>

ToggleCamera ==
    /\ Ready
    /\ Commit(toggleCamera(World("toggleCamera")))
    /\ UNCHANGED << mainCall, meshes, meshSource >>

ResetCamera ==
    /\ Ready
    /\ Commit(resetCamera(World("resetCamera")))
    /\ UNCHANGED << mainCall, meshes, meshSource >>

Resize ==
    /\ Ready
    /\ Commit(resize(World("resize")))
    /\ UNCHANGED << mainCall, meshes, meshSource >>

PointUpWith(targets) ==
    /\ Ready
    /\ \E target \in targets :
        Commit(pointUp([World("pointUp") EXCEPT !.log.target = target.v], target))
    /\ UNCHANGED << mainCall, meshes, meshSource >>

\* the model's "newMeshAvailable" event
ChangeMeshWith(payloads) ==
    /\ Ready
    /\ \E payload \in payloads :
        Commit(changeMesh([World("changeMesh") EXCEPT !.log.payload = payload], payload))
    /\ UNCHANGED << mainCall, meshes, meshSource >>

\* the model's "change:connectivityOn" event
UpdateConnectivityDisplay ==
    /\ Ready
    /\ \E isConnectivityOn \in BOOLEAN :
        Commit(updateConnectivityDisplay(World("updateConnectivityDisplay"),
                                         isConnectivityOn))
    /\ UNCHANGED << mainCall, meshes, meshSource >>

\* the model's "change:editingOn" event
UpdateEditingDisplay ==
    /\ Ready
    /\ \E isEditingOn \in BOOLEAN :
        Commit(updateEditingDisplay(World("updateEditingDisplay"), isEditingOn))
    /\ UNCHANGED << mainCall, meshes, meshSource >>

\* the model's "change:landmarks" event
ChangeLandmarksWith(inputs) ==
    /\ Ready
    /\ \E landmarks \in inputs :
        Commit(changeLandmarks([World("changeLandmarks") EXCEPT !.log.landmarks = landmarks],
                               landmarks))
    /\ UNCHANGED << mainCall, meshes, meshSource >>

\* the camera controller's "changePip" event
ChangePip ==
    /\ Ready
    /\ Commit(changePip(World("changePip")))
    /\ UNCHANGED << mainCall, meshes, meshSource >>

\* the mouse handler draws the selection box
DrawSelectionBox ==
    /\ Ready
    /\ \E mouseDown \in ScreenPoints, mousePosition \in ScreenPoints :
        Commit(drawSelectionBox(
            [World("drawSelectionBox") EXCEPT !.log.touched = {mouseDown, mousePosition}],
            mouseDown, mousePosition))
    /\ UNCHANGED << mainCall, meshes, meshSource >>

\* the mouse handler draws the targeting lines
DrawTargetingLines ==
    /\ Ready
    /\ \E point \in ScreenPoints, targetPoint \in ScreenPoints,
          secondaryPoints \in SecondaryPoints :
        Commit(drawTargetingLines(
            [World("drawTargetingLines") EXCEPT
                !.log.touched = {point, targetPoint}
                                \cup {secondaryPoints[i] : i \in 1..Len(secondaryPoints)}],
            point, targetPoint, secondaryPoints))
    /\ UNCHANGED << mainCall, meshes, meshSource >>

\* the mouse handler clears the 2D surface
ClearCanvas ==
    /\ Ready
    /\ Commit(clearCanvas(World("clearCanvas")))
    /\ UNCHANGED << mainCall, meshes, meshSource >>

\* a caller picks at a screen position
GetIntersects ==
    /\ Ready
    /\ \E p \in ScreenPoints, object \in PickObjects \cup {MeshObject(vp)}, hits \in Hits :
        Commit(getIntersects(World("getIntersects"), p[1], p[2], object, hits))
    /\ UNCHANGED << mainCall, meshes, meshSource >>

\* a caller asks whether a landmark is hidden by the mesh
LmViewVisible ==
    /\ Ready
    /\ \E lmView \in LmViews, meshHits \in Hits, lmHits \in Hits :
        Commit(lmViewVisible(World("lmViewVisible"), lmView, meshHits, lmHits))
    /\ UNCHANGED << mainCall, meshes, meshSource >>

\* another component opens an atomic operation around what it is about to do
StartAtomicOperation ==
    /\ Ready
    /\ ATOMIC_OPERATION < MaxDepth
    /\ Commit(startAtomicOperation(World("startAtomicOperation"), "other"))
    /\ UNCHANGED << mainCall, meshes, meshSource >>

\* ... and closes it
EndAtomicOperation ==
    /\ Ready
    /\ scopes # << >>
    /\ Commit(endAtomicOperation(World("endAtomicOperation")))
    /\ UNCHANGED << mainCall, meshes, meshSource >>

----------------------------------------------------------------------------
(* Spec: every handler, under nested atomic operations.  The orientation   *)
(* inputs are few here (SpecOrient has them all).                          *)

Init == InitWith(BOOLEAN)

InitializeRenderer == InitializeRendererWith({NullPayload, Mesh1}, BOOLEAN)

PointUp == PointUpWith({ NullTarget, Target(COORDS[3]), Target(COORDS[5]) })

ChangeMesh == ChangeMeshWith({NullPayload, Mesh1})

ChangeLandmarks == ChangeLandmarksWith({NoLandmarks, UnsetLandmarks, LandmarksA})

Next ==
    \/ InitializeScene
    \/ InitializeRenderer
    \/ Update
    \/ ToggleCamera
    \/ ResetCamera
    \/ Resize
    \/ PointUp
    \/ ChangeMesh
    \/ UpdateConnectivityDisplay
    \/ UpdateEditingDisplay
    \/ ChangeLandmarks
    \/ ChangePip
    \/ StartAtomicOperation
    \/ EndAtomicOperation

Spec == Init /\ [][Next]_vars

----------------------------------------------------------------------------
(* SpecOrient: the scene-graph transforms under every sequence of pointUp  *)
(* and changeMesh, with every target direction and every mesh payload.     *)

InitOrient == InitWith({TRUE})

InitializeRendererOrient == InitializeRendererWith(MeshPayloads, {TRUE})

PointUpOrient == PointUpWith(Targets)

ChangeMeshOrient == ChangeMeshWith(MeshPayloads)

NextOrient ==
    \/ InitializeScene
    \/ InitializeRendererOrient
    \/ PointUpOrient
    \/ ChangeMeshOrient

SpecOrient == InitOrient /\ [][NextOrient]_vars

----------------------------------------------------------------------------
(* SpecMain: one call of mainDirection, on every vector of the bounded grid, *)
(* as it is and normalised.                                                  *)

InitMain ==
    /\ vp = Unbuilt(TRUE)
    /\ ATOMIC_OPERATION = 0
    /\ scopes = << >>
    /\ log = NoLog
    /\ drawn = {}
    /\ meshes = ParsedMeshes([id \in MeshIds |-> FALSE])
    /\ meshSource = NoSource
    /\ \E v \in Vectors : mainCall = [NoCall EXCEPT !.v = v]

MainDirectionCall ==
    /\ ~mainCall.returned
    /\ mainCall' = [mainCall EXCEPT !.returned = TRUE,
                                    !.main = mainDirection(Vec(mainCall.v)),
                                    !.mainOfNormalized =
                                        mainDirection(normalize(Vec(mainCall.v)))]
    /\ UNCHANGED << vp, ATOMIC_OPERATION, scopes, log, drawn, meshes, meshSource >>

NextMain == MainDirectionCall

SpecMain == InitMain /\ [][NextMain]_vars

----------------------------------------------------------------------------
(* SpecCanvas: the 2D overlay.  Every sequence of draws and clears.        *)

InitCanvas == InitWith({TRUE})

InitializeRendererCanvas == InitializeRendererWith({NullPayload}, {TRUE})

NextCanvas ==
    \/ InitializeScene
    \/ InitializeRendererCanvas
    \/ DrawSelectionBox
    \/ DrawTargetingLines
    \/ ClearCanvas
    \/ ToggleCamera
    \/ UpdateEditingDisplay

SpecCanvas == InitCanvas /\ [][NextCanvas]_vars

----------------------------------------------------------------------------
(* SpecPick: picking, with and without a mesh, under both cameras.         *)

InitPick == InitWith(BOOLEAN)

InitializeRendererPick == InitializeRendererWith({NullPayload, Mesh1, Image1}, {TRUE})

ChangeMeshPick == ChangeMeshWith(MeshPayloads)

NextPick ==
    \/ InitializeScene
    \/ InitializeRendererPick
    \/ ChangeMeshPick
    \/ ToggleCamera
    \/ GetIntersects
    \/ LmViewVisible

SpecPick == InitPick /\ [][NextPick]_vars

----------------------------------------------------------------------------
(* SpecLandmarks: landmark sets coming and going, inside and outside       *)
(* atomic operations.                                                      *)

InitLandmarks == InitWith(BOOLEAN)

InitializeRendererLandmarks == InitializeRendererWith({NullPayload}, BOOLEAN)

ChangeLandmarksAll == ChangeLandmarksWith(LandmarkInputs)

NextLandmarks ==
    \/ InitializeScene
    \/ InitializeRendererLandmarks
    \/ ChangeLandmarksAll
    \/ Update
    \/ StartAtomicOperation
    \/ EndAtomicOperation

SpecLandmarks == InitLandmarks /\ [][NextLandmarks]_vars

----------------------------------------------------------------------------
(* SpecMesh: two meshes, with and without a texture, and every sequence of *)
(* texture, wireframe and alpha changes on them.                           *)

InitMesh ==
    /\ vp = Unbuilt(TRUE)
    /\ ATOMIC_OPERATION = 0
    /\ scopes = << >>
    /\ log = NoLog
    /\ mainCall = NoCall
    /\ drawn = {}
    /\ meshSource = NoSource
    /\ \E tcoords \in [MeshIds -> BOOLEAN] : meshes = ParsedMeshes(tcoords)

\* the module as a method of mesh id left it, and which method that was
Called(ms, op, id) == [ms EXCEPT !.last = [op |-> op, id |-> id]]

TextureOn ==
    /\ \E id \in MeshIds : meshes' = Called(textureOn(meshes, id), "textureOn", id)
    /\ UNCHANGED << vp, ATOMIC_OPERATION, scopes, log, mainCall, drawn, meshSource >>

TextureOff ==
    /\ \E id \in MeshIds : meshes' = Called(textureOff(meshes, id), "textureOff", id)
    /\ UNCHANGED << vp, ATOMIC_OPERATION, scopes, log, mainCall, drawn, meshSource >>

TextureToggle ==
    /\ \E id \in MeshIds : meshes' = Called(textureToggle(meshes, id), "textureToggle", id)
    /\ UNCHANGED << vp, ATOMIC_OPERATION, scopes, log, mainCall, drawn, meshSource >>

WireframeOn ==
    /\ \E id \in MeshIds : meshes' = Called(wireframeOn(meshes, id), "wireframeOn", id)
    /\ UNCHANGED << vp, ATOMIC_OPERATION, scopes, log, mainCall, drawn, meshSource >>

WireframeOff ==
    /\ \E id \in MeshIds : meshes' = Called(wireframeOff(meshes, id), "wireframeOff", id)
    /\ UNCHANGED << vp, ATOMIC_OPERATION, scopes, log, mainCall, drawn, meshSource >>

WireframeToggle ==
    /\ \E id \in MeshIds : meshes' = Called(wireframeToggle(meshes, id), "wireframeToggle", id)
    /\ UNCHANGED << vp, ATOMIC_OPERATION, scopes, log, mainCall, drawn, meshSource >>

\* the alpha slider: mesh.set('alpha', alpha)
SetAlpha ==
    /\ \E id \in MeshIds, alpha \in Alphas :
        meshes' = Called(setAlpha(meshes, id, alpha), "setAlpha", id)
    /\ UNCHANGED << vp, ATOMIC_OPERATION, scopes, log, mainCall, drawn, meshSource >>

NextMesh ==
    \/ TextureOn
    \/ TextureOff
    \/ TextureToggle
    \/ WireframeOn
    \/ WireframeOff
    \/ WireframeToggle
    \/ SetAlpha

SpecMesh == InitMesh /\ [][NextMesh]_vars

----------------------------------------------------------------------------
(* SpecSource: every interleaving of setAsset calls with the completions   *)
(* of the fetches they start.                                              *)

InitSource == InitWith({TRUE})

SetAsset ==
    /\ Len(meshSource.xhrs) < MaxFetches
    /\ \E id \in MeshIds : meshSource' = setAsset(meshSource, id)
    /\ UNCHANGED << vp, ATOMIC_OPERATION, scopes, log, mainCall, drawn, meshes >>

\* a fetch that is loading completes
FetchSuccess ==
    /\ \E i \in 1..Len(meshSource.xhrs) :
        /\ meshSource.xhrs[i].status = "loading"
        /\ meshSource' = fetchSuccess(meshSource, i)
    /\ UNCHANGED << vp, ATOMIC_OPERATION, scopes, log, mainCall, drawn, meshes >>

\* a fetch that is loading fails
FetchError ==
    /\ \E i \in 1..Len(meshSource.xhrs) :
        /\ meshSource.xhrs[i].status = "loading"
        /\ meshSource' = fetchError(meshSource, i)
    /\ UNCHANGED << vp, ATOMIC_OPERATION, scopes, log, mainCall, drawn, meshes >>

NextSource ==
    \/ SetAsset
    \/ FetchSuccess
    \/ FetchError

SpecSource == InitSource /\ [][NextSource]_vars

----------------------------------------------------------------------------
(* The claims *)

\* the updates of the last handler that passed both early returns
Passed == { i \in 1..Len(log.updates) : log.updates[i].calls # << >> }

\* the handlers that open an atomic operation of their own
AtomicOps ==
    { "pointUp", "updateConnectivityDisplay", "updateEditingDisplay", "changeLandmarks" }

\* C1: a call of Viewport.update made while the atomic depth is greater than 0
\* makes no renderer call at all, whatever opens, closes and render requests
\* came before; and updates are suppressed exactly while more atomic
\* operations have been opened than closed.
C1_GateSuppressesUpdate ==
    /\ \A i \in 1..Len(log.updates) :
        log.updates[i].depth > 0 => log.updates[i].calls = << >>
    /\ atomicOperationUnderway(World("")) <=> Len(scopes) > 0

\* an update was requested inside two nested atomic operations
C1_Witness ==
    /\ Len(scopes) = 2
    /\ log.op \in {"update", "changeMesh", "resize"}
    /\ \E i \in 1..Len(log.updates) : log.updates[i].depth = 2

\* C2: closing an inner atomic operation renders nothing; closing the
\* outermost one (the depth returns to 0) renders exactly once, through
\* batchHandler; opening one renders nothing.
C2_OutermostCloseRendersOnce ==
    /\ log.op \in AtomicOps \cup {"endAtomicOperation"} =>
        Cardinality(Passed) = IF ATOMIC_OPERATION = 0 THEN 1 ELSE 0
    /\ log.op = "startAtomicOperation" => Passed = {}

\* a viewport operation ran nested in another atomic operation and closed
\* its inner scope without a render
C2_Witness ==
    /\ log.op = "changeLandmarks"
    /\ ATOMIC_OPERATION = 1
    /\ Passed = {}

\* C3: every atomic-wrapped viewport operation leaves the depth counter where
\* it was, on the early return and on a throw as well; the counter is never
\* negative.
C3_DepthRestored ==
    /\ [](ATOMIC_OPERATION >= 0 /\ ATOMIC_OPERATION = Len(scopes))
    /\ [][log'.op \in AtomicOps => ATOMIC_OPERATION' = ATOMIC_OPERATION]_vars

\* pointUp threw inside an open atomic operation
C3_Witness ==
    /\ log.op \in {"pointUp", "changeLandmarks"}
    /\ log.threw
    /\ ATOMIC_OPERATION = 1

\* C4: Viewport.update without a renderer makes no renderer call; an update
\* changes nothing of the viewport's state; a second update in a row makes
\* the same renderer calls as the first.
C4_UpdateIsIdempotent ==
    /\ [](\A i \in 1..Len(log.updates) :
            ~log.updates[i].renderer => log.updates[i].calls = << >>)
    /\ [][log'.op = "update" =>
            /\ vp' = vp
            /\ ATOMIC_OPERATION' = ATOMIC_OPERATION
            /\ Len(log'.updates) = 1]_vars
    /\ [][log.op = "update" /\ log'.op = "update" => log'.updates = log.updates]_vars

\* toggleCamera and resetCamera called update during initialize, before the
\* renderer was created
C4_Witness ==
    /\ vp.pc = "scene"
    /\ ~vp.renderer
    /\ Len(log.updates) = 2

\* the axis c is strictly nearer to the direction v than every other axis
StrictlyNearest(v, c) == \A c2 \in Axes \ {c} : Dot(v, c) > Dot(v, c2)

\* the handler that just ran was a pointUp that turned the nodes
Turned == log.op = "pointUp" /\ log.rotations # << >>

\* C5: a pointUp leaves the stored up vector on one of the six canonical
\* axes, and a second pointUp with the same target changes nothing and
\* applies no rotation.
C5_PointUpCanonicalIdempotent ==
    /\ [](vp.upVector \in Axes)
    /\ [][(/\ log.op = "pointUp" /\ ~log.threw
           /\ log'.op = "pointUp" /\ ~log'.threw
           /\ log'.target = log.target)
          => (vp' = vp /\ log'.rotations = << >>)]_vars

\* a pointUp found the up vector already on its target's axis, away from the
\* original +Y
C5_Witness ==
    /\ log.op = "pointUp"
    /\ ~log.threw
    /\ log.rotations = << >>
    /\ vp.upVector = COORDS[6]
    /\ StrictlyNearest(log.target, COORDS[6])

\* C6: between two distinct, non-antipodal axes the quarter turn pointUp
\* applies carries the old up vector onto the new one.
C6_QuarterTurnCarriesUpToTarget ==
    [][(Turned' /\ Dot(vp.upVector, vp'.upVector) = 0)
       => RotateVector(log'.rotations[1].axis, log'.rotations[1].quarters,
                       vp.upVector) = vp'.upVector]_vars

\* C7: onto the opposite axis pointUp applies a half turn that carries the
\* old up vector onto the new one.
C7_HalfTurnInvertsUp ==
    [][(Turned' /\ vp'.upVector = multiplyScalar(vp.upVector, -1))
       => /\ log'.rotations[1].quarters = -2
          /\ RotateVector(log'.rotations[1].axis, log'.rotations[1].quarters,
                          vp.upVector) = vp'.upVector]_vars

\* C8: from up = +Y, a pointUp whose target is nearest to +Z turns both
\* ScaleRotate nodes once, by +90 degrees about X, and stores +Z.
C8_YToZIsQuarterTurnAboutX ==
    [][(/\ log'.op = "pointUp" /\ ~log'.threw
        /\ vp.upVector = COORDS[3]
        /\ StrictlyNearest(log'.target, COORDS[5]))
       => /\ vp'.upVector = COORDS[5]
          /\ log'.rotations =
                << [node |-> "s_scaleRotate", axis |-> COORDS[1], quarters |-> 1],
                   [node |-> "s_h_scaleRotate", axis |-> COORDS[1], quarters |-> 1] >>]_vars

\* the quarter turn about X that ends on +Z starts from +Y
C8_Witness ==
    /\ Turned
    /\ vp.upVector = COORDS[5]
    /\ log.rotations[1].axis = COORDS[1]
    /\ log.rotations[1].quarters = 1
    /\ log.target = <<0, 0, 1>>

\* the place of an axis in COORDS
IndexOf(c) == CHOOSE i \in 1..6 : COORDS[i] = c

\* C9: mainDirection returns an axis at the least Euclidean distance from its
\* argument and, among the axes at that distance, the first of +X, -X, +Y,
\* -Y, +Z, -Z; the zero vector yields +X.
C9_MainDirectionNearestFirst ==
    mainCall.returned =>
        /\ mainCall.main \in Axes
        /\ \A c \in Axes :
            DistanceSq(mainCall.v, mainCall.main) <= DistanceSq(mainCall.v, c)
        /\ \A i \in 1..6 :
            i < IndexOf(mainCall.main) =>
                DistanceSq(mainCall.v, COORDS[i]) > DistanceSq(mainCall.v, mainCall.main)
        /\ mainCall.v = <<0, 0, 0>> => mainCall.main = COORDS[1]

\* mainDirection returned for a vector as near to +Y as to -Z
C9_Witness ==
    /\ mainCall.returned
    /\ mainCall.v = <<0, 1, -1>>
    /\ mainCall.main = COORDS[3]

\* C10: the helper hierarchy's ScaleRotate and Translate nodes hold the same
\* scale, rotation and translation as the primary ones, and every rotation
\* is applied to both nodes alike.
C10_HelperMirrorsPrimary ==
    /\ vp.s_h_scaleRotate.scale = vp.s_scaleRotate.scale
    /\ vp.s_h_scaleRotate.rot = vp.s_scaleRotate.rot
    /\ vp.s_h_translate = vp.s_translate
    /\ Len(log.rotations) \in {0, 2}
    /\ Len(log.rotations) = 2 =>
        /\ log.rotations[1].node = "s_scaleRotate"
        /\ log.rotations[2].node = "s_h_scaleRotate"
        /\ log.rotations[2].axis = log.rotations[1].axis
        /\ log.rotations[2].quarters = log.rotations[1].quarters

\* a pointUp turned the nodes after a mesh had set their scale and position
C10_Witness ==
    /\ Turned
    /\ vp.s_scaleRotate.scale = [num |-> 1, den |-> 2]
    /\ vp.s_translate = <<-1, 0, 0>>
    /\ vp.s_scaleRotate.rot # Identity

\* C11: the mesh node holds no mesh or one, the active one; changeMesh makes
\* the payload's mesh the active one, and with a null payload it leaves no
\* mesh and no octree, changes no transform of either hierarchy and does not
\* render.
C11_ChangeMeshKeepsAtMostOneMesh ==
    /\ [](vp.pc = "ready" =>
            /\ Cardinality(vp.s_mesh) <= 1
            /\ vp.s_mesh = IF vp.mesh = "null" THEN {} ELSE {vp.mesh})
    /\ [][log'.op = "changeMesh" =>
            IF log'.payload.mesh = "null"
            THEN /\ vp'.mesh = "null"
                 /\ vp'.octree = "null"
                 /\ vp'.s_scaleRotate = vp.s_scaleRotate
                 /\ vp'.s_h_scaleRotate = vp.s_h_scaleRotate
                 /\ vp'.s_translate = vp.s_translate
                 /\ vp'.s_h_translate = vp.s_h_translate
                 /\ log'.updates = << >>
            ELSE vp'.mesh = log'.payload.mesh]_vars

\* changeMesh with a null payload tore down a mesh of radius 2
C11_Witness ==
    /\ log.op = "changeMesh"
    /\ log.payload.mesh = "null"
    /\ vp.mesh = "null"
    /\ vp.s_mesh = {}
    /\ vp.meshScale = 2

\* C12: after changeMesh with a mesh whose bounding sphere has radius r and
\* centre c, both ScaleRotate nodes scale by 1/r (r times the scale is 1) and
\* both Translate nodes sit at -c (c moves to the origin); for r = 2 and
\* c = (1,0,0) the scale is 1/2 and the translation (-1,0,0).
C12_MeshNormalisedToUnitSphere ==
    log.op = "changeMesh" /\ log.payload.mesh # "null" =>
        LET r == log.payload.radius
            c == log.payload.center
        IN  /\ \A node \in {vp.s_scaleRotate, vp.s_h_scaleRotate} :
                r * node.scale.num = node.scale.den
            /\ \A position \in {vp.s_translate, vp.s_h_translate} :
                addVectors(position, c) = <<0, 0, 0>>
            /\ (r = 2 /\ c = <<1, 0, 0>>) =>
                /\ vp.s_scaleRotate.scale = [num |-> 1, den |-> 2]
                /\ vp.s_h_scaleRotate.scale = [num |-> 1, den |-> 2]
                /\ vp.s_translate = <<-1, 0, 0>>
                /\ vp.s_h_translate = <<-1, 0, 0>>

\* changeMesh made a mesh of radius 2 centred at (1,0,0) the active one
C12_Witness ==
    /\ log.op = "changeMesh"
    /\ log.payload.radius = 2
    /\ log.payload.center = <<1, 0, 0>>
    /\ vp.mesh = "mesh2"
    /\ vp.s_translate = <<-1, 0, 0>>

\* C13: once the cameras exist the active camera is the perspective or the
\* orthographic-main camera, never the PIP zoom camera and never none; each
\* toggleCamera makes the other of the two the active one; the three camera
\* objects are distinct and stay the ones initialize created.
C13_OneOfTwoCamerasActive ==
    /\ [](vp.pc # "new" =>
            /\ vp.s_camera \in {"s_pCam", "s_oCam"}
            /\ Cardinality({vp.s_pCam, vp.s_oCam, vp.s_oCamZoom, "undefined"}) = 4)
    /\ [][log'.op = "toggleCamera" =>
            /\ vp.s_camera = "s_pCam" => vp'.s_camera = "s_oCam"
            /\ vp.s_camera = "s_oCam" => vp'.s_camera = "s_pCam"]_vars
    /\ [][vp.pc # "new" =>
            /\ vp'.s_pCam = vp.s_pCam
            /\ vp'.s_oCam = vp.s_oCam
            /\ vp'.s_oCamZoom = vp.s_oCamZoom]_vars

\* toggleCamera switched an image-mode viewport (orthographic since
\* initialize) to the perspective camera
C13_Witness ==
    /\ log.op = "toggleCamera"
    /\ ~vp.meshMode
    /\ vp.s_camera = "s_pCam"

HasPipPass(calls) ==
    \E i \in 1..Len(calls), j \in 1..Len(calls) :
        /\ i < j
        /\ calls[i] = Call("setViewport", "pipBounds", "")
        /\ calls[j] = Call("render", "scene", "s_oCamZoom")

\* C15: an update that is not suppressed renders the scene with the active
\* camera, and it runs the PIP pass exactly when the active camera is the
\* orthographic-main one: also right after a toggle, in either direction.
C15_PipPassIffOrthographic ==
    \A i \in Passed :
        /\ \E k \in 1..Len(log.updates[i].calls) :
            log.updates[i].calls[k] = Call("render", "scene", vp.s_camera)
        /\ HasPipPass(log.updates[i].calls) <=> vp.s_camera = "s_oCam"

\* with connectivity on, a mesh-mode viewport toggled to the orthographic
\* camera rendered the PIP pass, overlay included
C15_Witness ==
    /\ log.op \in {"toggleCamera", "update"}
    /\ vp.meshMode
    /\ vp.s_camera = "s_oCam"
    /\ vp.showConnectivity
    /\ \E i \in Passed :
        /\ HasPipPass(log.updates[i].calls)
        /\ \E k \in 1..Len(log.updates[i].calls) :
            log.updates[i].calls[k] = Call("render", "sceneHelpers", "s_oCamZoom")

\* the least and the greatest of a non-empty set of integers
SetMin(S) == CHOOSE m \in S : \A n \in S : m <= n

SetMax(S) == CHOOSE m \in S : \A n \in S : m >= n

Xs(points) == { p[1] : p \in points }

Ys(points) == { p[2] : p \in points }

\* ctxBox covers the rectangle box
Covers(box) ==
    /\ vp.ctxBox.minX <= box.minX
    /\ vp.ctxBox.minY <= box.minY
    /\ vp.ctxBox.maxX >= box.maxX
    /\ vp.ctxBox.maxY >= box.maxY

\* C16: ctxBox contains every point folded into it since the last clear; it
\* depends on the set of those points only, not on the order of the folds
\* (it is the sentinel widened to the points); and a step that does not
\* clear never shrinks it.
C16_BoxContainsPointsInAnyOrder ==
    /\ [](\A p \in drawn :
            /\ vp.ctxBox.minX <= p[1] /\ p[1] <= vp.ctxBox.maxX
            /\ vp.ctxBox.minY <= p[2] /\ p[2] <= vp.ctxBox.maxY)
    /\ [](vp.ctxBox = [minX |-> SetMin(Xs(drawn) \cup {EmptyBox.minX}),
                       minY |-> SetMin(Ys(drawn) \cup {EmptyBox.minY}),
                       maxX |-> SetMax(Xs(drawn) \cup {EmptyBox.maxX}),
                       maxY |-> SetMax(Ys(drawn) \cup {EmptyBox.maxY})])
    /\ [][log'.clears = << >> => drawn \subseteq drawn' /\ Covers(vp.ctxBox)']_vars

\* targeting lines were drawn; four different points are in the box now, one
\* of them left of the canvas
C16_Witness ==
    /\ log.op = "drawTargetingLines"
    /\ Cardinality(drawn) = 4
    /\ vp.ctxBox.minX = -1
    /\ vp.ctxBox.maxX = 7
    /\ vp.ctxBox.maxY = 9

\* C17: after a draw, ctxBox is the smallest rectangle covering the points
\* folded in since the last clear: its minima are the least and its maxima
\* the greatest of their coordinates, negative coordinates included.
C17_BoxIsSmallestCover ==
    drawn # {} =>
        vp.ctxBox = [minX |-> SetMin(Xs(drawn)), minY |-> SetMin(Ys(drawn)),
                     maxX |-> SetMax(Xs(drawn)), maxY |-> SetMax(Ys(drawn))]

\* the span that clearRect(x, ..., width, ...) erases along one axis: the
\* rectangle has the corners x and x + width, whichever is the lesser
Erased(x, width) == [from |-> Min(x, x + width), to |-> Max(x, x + width)]

\* C18: each clearCanvas erases exactly the dirty rectangle padded by 3, as
\* far as it lies on the canvas (from min - 3, not below 0, to max + 3 in x
\* and in y), and nothing when nothing was drawn since the last clear; it
\* leaves ctxBox at the empty sentinel.
C18_ClearErasesPaddedDirtyRectangle ==
    \A i \in 1..Len(log.clears) :
        LET c == log.clears[i]
        IN  /\ vp.ctxBox = EmptyBox
            /\ IF c.drawn = {}
               THEN c.width = 0 \/ c.height = 0
               ELSE /\ Erased(c.x, c.width) =
                        [from |-> Max(c.box.minX - 3, 0), to |-> c.box.maxX + 3]
                    /\ Erased(c.y, c.height) =
                        [from |-> Max(c.box.minY - 3, 0), to |-> c.box.maxY + 3]

\* C19: getIntersects with a null target or an empty list returns an empty
\* list, does not throw and leaves the viewport (ray and cameras included) as
\* it was; lmViewVisible without an active mesh gets no intersection for the
\* mesh, asks no intersection routine for it and answers that the landmark
\* is visible.
C19_EmptyTargetGivesNoIntersections ==
    /\ [][(/\ log'.op = "getIntersects"
           /\ \/ log'.pick[1].object.kind = "null"
              \/ log'.pick[1].object.kind = "array" /\ log'.pick[1].object.n = 0)
          => /\ log'.pick[1].result = << >>
             /\ ~log'.threw
             /\ vp' = vp]_vars
    /\ [][(log'.op = "lmViewVisible" /\ vp.mesh = "null" /\ log'.pick # << >>)
          => /\ log'.pick[1].result = << >>
             /\ log'.pick[1].routine = "none"
             /\ ~log'.threw
             /\ log'.result = "true"]_vars

\* a pick on an empty list came after a pick that had set the ray under the
\* orthographic camera
C19_Witness ==
    /\ log.op = "getIntersects"
    /\ log.pick[1].object = ObjectList(0)
    /\ log.pick[1].result = << >>
    /\ vp.ray.kind = "orthographic"

\* C20: lmViewVisible never throws and answers true or false: false for a
\* landmark view without a symbol, otherwise true exactly when the mesh is
\* not hit or its nearest hit is farther than the nearest hit of the symbol
\* (so false when the mesh is hit and the symbol is not).
C20_LmViewVisibleDecides ==
    log.op = "lmViewVisible" =>
        /\ ~log.threw
        /\ log.result \in {"true", "false"}
        /\ IF log.pick = << >>
           THEN log.result = "false"
           ELSE LET iMesh == log.pick[1].result
                    iLm == log.pick[2].result
                IN  log.result = "true" <=>
                        \/ iMesh = << >>
                        \/ iLm # << >> /\ iMesh[1] > iLm[1]

\* C21: after changeLandmarks the viewport holds one landmark view per
\* landmark of the set it was given and one connectivity view per edge of
\* that set, in order, and none when there is no set; it disposed of
\* exactly the views held before, all of them before it constructed the
\* first new one; no other handler touches the two lists.
C21_ViewsMatchCurrentLandmarks ==
    /\ [](log.op = "changeLandmarks" =>
            LET lms == log.landmarks
                isSet == lms.kind = "set"
            IN  /\ Len(vp.landmarkViews) = IF isSet THEN lms.n ELSE 0
                /\ \A i \in 1..Len(vp.landmarkViews) :
                    vp.landmarkViews[i].model = << lms.id, i - 1 >>
                /\ Len(vp.connectivityViews) =
                       IF isSet THEN Len(lms.connectivity) ELSE 0
                /\ \A k \in 1..Len(vp.connectivityViews) :
                    vp.connectivityViews[k].model =
                        << << lms.id, lms.connectivity[k][1] >>,
                           << lms.id, lms.connectivity[k][2] >> >>
                /\ \A i \in 1..Len(log.viewCalls), j \in 1..Len(log.viewCalls) :
                    (i < j /\ log.viewCalls[i] = "new") => log.viewCalls[j] = "new")
    /\ [][log'.op = "changeLandmarks" =>
            /\ log'.disposed.landmarkViews = vp.landmarkViews
            /\ log'.disposed.connectivityViews = vp.connectivityViews]_vars
    /\ [][(vp.pc = "ready" /\ log'.op # "changeLandmarks") =>
            /\ vp'.landmarkViews = vp.landmarkViews
            /\ vp'.connectivityViews = vp.connectivityViews]_vars

\* the views of set A were disposed of and the views of set B built
C21_Witness ==
    /\ log.op = "changeLandmarks"
    /\ log.landmarks.id = "B"
    /\ Len(log.disposed.landmarkViews) = 2
    /\ Len(log.disposed.connectivityViews) = 1
    /\ Len(vp.landmarkViews) = 3
    /\ Len(vp.connectivityViews) = 2
    /\ log.viewCalls = << "dispose", "dispose", "dispose", "new", "new", "new", "new", "new" >>

\* the fetches of the source that are in flight and not aborted
InFlight(src) == { i \in 1..Len(src.xhrs) : src.xhrs[i].status = "loading" }

\* C22: in every interleaving of setAsset calls and fetch completions at most
\* one fetch is in flight and not aborted, and a completion only ever makes
\* the most recently requested mesh the active asset and mesh: a fetch that
\* was superseded never sets them.
C22_OnlyLatestFetchSetsAsset ==
    /\ [](Cardinality(InFlight(meshSource)) <= 1)
    /\ [](InFlight(meshSource) \subseteq { Len(meshSource.xhrs) })
    /\ [][(meshSource'.asset # meshSource.asset \/ meshSource'.mesh # meshSource.mesh)
            => /\ meshSource.xhrs # << >>
               /\ meshSource'.asset = meshSource.xhrs[Len(meshSource.xhrs)].id
               /\ meshSource'.mesh = meshSource'.asset]_vars

\* setAsset(A), then setAsset(B) while A was loading, then B arrived: A was
\* aborted and B is the asset
C22_Witness ==
    /\ Len(meshSource.xhrs) = 2
    /\ meshSource.xhrs[1] = [id |-> "A", status |-> "aborted"]
    /\ meshSource.xhrs[2] = [id |-> "B", status |-> "done"]
    /\ meshSource.asset = "B"
    /\ meshSource.mesh = "B"

\* the positions, in the renderer calls of one update, where a scene is rendered
Renders(calls, scene) ==
    { k \in 1..Len(calls) : calls[k].op = "render" /\ calls[k].a = scene }

\* C23: in an update that is not suppressed, each pass (main and PIP) renders
\* the primary scene right after a full clear; the helper scene is rendered
\* with the same camera, right after a depth-only clear that follows the
\* primary render, if and only if showConnectivity is true; with
\* showConnectivity false there is no helper render and no depth-only clear
\* (showConnectivity as it was when the update ran).
C23_HelperPassIffShowConnectivity ==
    \A i \in Passed :
        LET calls == log.updates[i].calls
            showConnectivity == log.updates[i].showConnectivity
            n == Len(calls)
        IN  /\ Renders(calls, "scene") # {}
            /\ \A k \in Renders(calls, "scene") :
                /\ k > 1
                /\ calls[k - 1] = Call("clear", "", "")
                /\ showConnectivity =>
                    /\ k + 2 <= n
                    /\ calls[k + 1] = Call("clearDepth", "", "")
                    /\ calls[k + 2] = Call("render", "sceneHelpers", calls[k].b)
            /\ \A k \in Renders(calls, "sceneHelpers") :
                /\ showConnectivity
                /\ k > 2
                /\ calls[k - 1] = Call("clearDepth", "", "")
                /\ calls[k - 2] = Call("render", "scene", calls[k].b)
            /\ \A k \in 1..n : calls[k].op = "clearDepth" =>
                /\ showConnectivity
                /\ k + 1 \in Renders(calls, "sceneHelpers")
            /\ \A k \in 1..n : calls[k].op = "clear" =>
                k + 1 \in Renders(calls, "scene")

\* connectivity was switched off in orthographic mode: the update that
\* followed ran both passes without a helper render or a depth-only clear
C23_Witness ==
    /\ log.op = "updateConnectivityDisplay"
    /\ ~vp.showConnectivity
    /\ vp.s_camera = "s_oCam"
    /\ \E i \in Passed :
        /\ Cardinality(Renders(log.updates[i].calls, "scene")) = 2
        /\ Renders(log.updates[i].calls, "sceneHelpers") = {}

\* the on-canvas points of a set of screen points
OnCanvas(points) == { p \in points : p[1] >= 0 /\ p[2] >= 0 }

\* the rectangle one clearRect call erased holds the point p
ErasedBy(c, p) ==
    /\ Erased(c.x, c.width).from <= p[1] /\ p[1] <= Erased(c.x, c.width).to
    /\ Erased(c.y, c.height).from <= p[2] /\ p[2] <= Erased(c.y, c.height).to

\* C24: drawSelectionBox folds both corners and drawTargetingLines folds the
\* cursor point, the screen point of every secondary landmark and that of
\* the target landmark into ctxBox, so after the draw ctxBox holds every
\* point the draw touched; and the clearCanvas that follows erases every
\* on-canvas point (both coordinates >= 0) drawn since the previous clear.
C24_DrawsFoldEveryPointTheyTouch ==
    /\ [](log.op \in {"drawSelectionBox", "drawTargetingLines"} =>
            /\ log.touched # {}
            /\ log.touched \subseteq drawn
            /\ \A p \in log.touched :
                /\ vp.ctxBox.minX <= p[1] /\ p[1] <= vp.ctxBox.maxX
                /\ vp.ctxBox.minY <= p[2] /\ p[2] <= vp.ctxBox.maxY)
    /\ [](\A i \in 1..Len(log.clears) :
            \A p \in OnCanvas(log.clears[i].drawn) : ErasedBy(log.clears[i], p))
    /\ [][(log.op \in {"drawSelectionBox", "drawTargetingLines"} /\ log'.clears # << >>)
            => \A p \in OnCanvas(log.touched) : ErasedBy(log'.clears[1], p)]_vars

\* targeting lines to a target and two secondary landmarks, drawn over a
\* selection box, were then cleared: five points, four of them on the canvas
C24_Witness ==
    /\ log.op = "clearCanvas"
    /\ Cardinality(log.clears[1].drawn) = 5
    /\ log.clears[1].x = 0
    /\ log.clears[1].width = 10
    /\ log.clears[1].y = 0
    /\ log.clears[1].height = 12

\* C25: the octree is null or was built from the active mesh, and is non-null
\* only while a mesh is attached; changeMesh drops the octree of the mesh it
\* removes and leaves the octree of the new mesh's geometry, or none for a
\* payload that is null or an image; getIntersects hands a pick to the
\* octree only for the active mesh and its own octree.  (Before initialize has
\* run changeMesh once, mesh and octree are undefined: no octree.)
C25_OctreeBelongsToActiveMesh ==
    /\ [](vp.octree \in {"undefined", "null"}
            \/ (vp.mesh \notin {"undefined", "null"} /\ vp.octree = vp.mesh))
    /\ [](vp.pc = "ready" => vp.octree # "undefined")
    /\ [][log'.op = "changeMesh" =>
            /\ log'.removed.octree \in {"none", vp.octree}
            /\ vp.mesh # "null" => log'.removed = [mesh |-> vp.mesh, octree |-> vp.octree]
            /\ vp'.octree = IF log'.payload.mesh # "null" /\ log'.payload.isBufferGeometry
                            THEN log'.payload.mesh ELSE "null"]_vars
    /\ [](\A i \in 1..Len(log.pick) :
            log.pick[i].routine = "octree.intersetMesh" =>
                /\ log.pick[i].object.isMesh
                /\ vp.octree = vp.mesh
                /\ vp.mesh \notin {"undefined", "null"})

\* changeMesh replaced a mesh that had an octree by an image: the octree of
\* the mesh went with it and the image has none
C25_Witness ==
    /\ log.op = "changeMesh"
    /\ log.removed = [mesh |-> "mesh1", octree |-> "mesh1"]
    /\ vp.mesh = "image1"
    /\ vp.octree = "null"

\* C26: whenever changeMesh has overwritten the orientation of the
\* ScaleRotate nodes from the new mesh's up and front vectors, the stored
\* current-up vector is the original up (+Y), so that a later pointUp turns
\* the nodes relative to the orientation they really have.
C26_ChangeMeshResetsStoredUp ==
    (/\ log.op = "changeMesh"
     /\ log.payload.mesh # "null"
     /\ vp.s_scaleRotate.rot = lookAt(log.payload.up, log.payload.front))
    => vp.upVector = ORIGINAL_UP_VECTOR

\* C27: the pending table of MeshSource holds only fetches that are still in
\* flight: the entry of a fetch is gone once the fetch has succeeded, was
\* aborted by a later setAsset, or has failed.
C27_PendingHoldsOnlyFetchesInFlight ==
    \A id \in MeshIds :
        meshSource.pending[id] # 0 =>
            meshSource.xhrs[meshSource.pending[id]].status = "loading"

\* the module after textureToggle was called twice on mesh id
ToggledTwice(ms, id) == textureToggle(textureToggle(ms, id), id)

\* C28: for a mesh that has a texture, after any sequence of texture and
\* wireframe calls, isTextureOn() is true exactly when the mesh is shown with
\* its texture material; a texture switch leaves isWireframeOn() as it was;
\* textureToggle called twice restores the material and the wireframe state.
\* For a mesh without a texture, textureOn and textureOff change nothing.
C28_TextureSwitchKeepsWireframe ==
    /\ [](\A id \in MeshIds : hasTexture(meshes, id) =>
            /\ isTextureOn(meshes, id) <=> meshes.mesh[id].material = "texture"
            /\ ToggledTwice(meshes, id).mesh[id].material = meshes.mesh[id].material
            /\ isTextureOn(ToggledTwice(meshes, id), id) = isTextureOn(meshes, id)
            /\ isWireframeOn(ToggledTwice(meshes, id), id) = isWireframeOn(meshes, id))
    /\ [](\A id \in MeshIds : ~hasTexture(meshes, id) =>
            /\ textureOn(meshes, id) = meshes
            /\ textureOff(meshes, id) = meshes
            /\ meshes.mesh[id].material = "basicMaterial")
    /\ [][\A id \in MeshIds :
            (/\ meshes'.last.id = id
             /\ meshes'.last.op \in {"textureOn", "textureOff", "textureToggle"})
            => /\ isWireframeOn(meshes', id) = isWireframeOn(meshes, id)
               /\ hasTexture(meshes', id) = hasTexture(meshes, id)
               /\ ~hasTexture(meshes, id) =>
                    /\ meshes'.mesh = meshes.mesh
                    /\ meshes'.basicMaterial = meshes.basicMaterial]_vars

\* the texture of mesh A was switched off while its wireframe was on: A is
\* shown with the basic material, wireframe still on, and B kept its texture
C28_Witness ==
    /\ meshes.last = [op |-> "textureOff", id |-> "A"]
    /\ hasTexture(meshes, "A")
    /\ ~isTextureOn(meshes, "A")
    /\ meshes.mesh["A"].material = "basicMaterial"
    /\ isWireframeOn(meshes, "A")
    /\ isTextureOn(meshes, "B")

\* the opacity of the material mesh id is shown with
materialOpacity(ms, id) == t_meshMaterial(ms, id).opacity

\* C29: display state is per mesh: a wireframeOn, wireframeOff,
\* wireframeToggle or alpha change on one mesh never changes isWireframeOn()
\* or the material opacity of another mesh, also when both meshes are
\* untextured or have their texture switched off.
C29_DisplayStateIsPerMesh ==
    [][\A a \in MeshIds, b \in MeshIds :
        (/\ a # b
         /\ meshes'.last.id = a
         /\ meshes'.last.op \in {"wireframeOn", "wireframeOff", "wireframeToggle", "setAlpha"})
        => /\ isWireframeOn(meshes', b) = isWireframeOn(meshes, b)
           /\ materialOpacity(meshes', b) = materialOpacity(meshes, b)]_vars

====
